---- MODULE Spec2Model ----
(***************************************************************************)
(* A model of the MPPT decision engine wrapper (MPPT.py), the base Stride  *)
(* calculator (MPPTComponents/Stride.py), the cell models and the lookup   *)
(* table of the nonideal one (PVCellIdeal.py, PVCellNonideal.py), the      *)
(* source curve of the controller (DataController.generateSourceCurve)     *)
(* and the data of its graphs (Graph.py).                                  *)
(*                                                                         *)
(* Quantities that are floats in the source are scaled integers here:      *)
(* strides, voltages and currents of the MPPT, the Stride and the solver   *)
(* loop are in thousandths (0.01 V is 10, 0.621 V is 621, the solver's     *)
(* 0.001 A increment is 1); the arguments and results of the cell models   *)
(* and the fields of the lookup table are in ten-thousandths.              *)
(***************************************************************************)
EXTENDS Integers, Sequences, FiniteSets, TLC

(***************************************************************************)
(* Bounds of the model.                                                    *)
(***************************************************************************)
MaxVolt == 2
MaxCurr == 1
MaxCells == 2
SweepLen == 2
MaxCand == 3
MaxResid == 3
MaxCoords == 2
MaxPoints == 2

(* Program constants: the defaults of Stride.__init__ / Stride.setup.      *)
DefaultMinStride == 10
DefaultVMPP == 621
DefaultError == 50
(* PVCellNonideal.getCurrent: the scan increment (0.001 A, in thousandths)  *)
(* and the factor applied to the result.                                   *)
Increment == 1
CalibrationFactor == 10
(* getCurrent: the value 0.001 that replaces a zero voltage or irradiance, *)
(* in ten-thousandths.                                                     *)
Eps == 10
(* buildCurrentLookup: the stop values 0.81, 1000.1 and 80.1 of the three  *)
(* np.arange loops, in ten-thousandths.                                    *)
VoltageStop == 8100
IrradianceStop == 10001000
TemperatureStop == 801000
(* PVCell.MAX_VOLTAGE (0.8) and PVCell.MIN_RESOLUTION (0.001), in          *)
(* ten-thousandths.                                                        *)
MAX_VOLTAGE == 8000
MIN_RESOLUTION == 10

Voltages == 0..MaxVolt
Currents == 0..MaxCurr
Irradiances == {1000}
Temperatures == {25}
StrideTypes == {"Fixed", "Adaptive"}
MinStrides == {DefaultMinStride, 20}
VMPPs == {DefaultVMPP, 500}
Errors == {DefaultError, 100}
NumCells == 1..MaxCells
ModelTypes == {"Voltage Sweep", "Default", "PandO", "default", ""}

VARIABLES
    stride,      \* the Stride object: its attributes
    strideCtor,  \* the arguments the Stride object was constructed with
    strideCall,  \* the last call made on the Stride object
    strideRet,   \* what that call returned
    _model,      \* MPPT._model: None or the installed variant object
    mpptCall,    \* the last call made on the MPPT object
    mpptRet,     \* its outcome: the error raised, if any, and the value returned
    modelId,     \* the identity of the object self._model refers to, 0 for None
    mpptEvents,  \* what the last MPPT call did to model objects, in program order
    resid,       \* getCurrent's input, as the residual (left - right) ** 2 it
                 \* yields at each candidate k * 0.001 A (NaN for a NaN input)
    currentPrediction,  \* getCurrent's locals
    difference,
    decreasing,
    solverPc,    \* "scan" inside the while loop, "done" after it
    solverRet,   \* getCurrent's outcome: the error raised, if any, and the value
    physics,     \* the cell equations, as a member of the family Physics
    lookupImpl,  \* which of two rows with one key the Lookup object retrieves
    files,       \* the backing files of the lookup tables: name -> rows
    _lookup,     \* PVCellNonideal._lookup: the installed Lookup object
    cellCall,    \* the last call made on the cell model
    cellRet,     \* its outcome: the error raised, if any, and the value returned
    _PVEnv,      \* DataController._PVEnv: the environment set up
    _PVSource,   \* DataController._PVSource: the source model set up
    curveCall,   \* the last generateSourceCurve call and the coordinates getIV gave
    curveRet,    \* what generateSourceCurve returned
    _series,     \* Graph._series: for each series ID its data and multiplier
    graphCall,   \* the last call made on the graph
    graphRet     \* its outcome: the error raised, if any

strideVars == <<stride, strideCtor, strideCall, strideRet>>
mpptVars == <<_model, mpptCall, mpptRet, modelId, mpptEvents>>
solverVars == <<resid, currentPrediction, difference, decreasing, solverPc, solverRet>>
cellVars == <<physics, lookupImpl, files, _lookup, cellCall, cellRet>>
curveVars == <<_PVEnv, _PVSource, curveCall, curveRet>>
graphVars == <<_series, graphCall, graphRet>>
newVars == <<cellVars, curveVars, graphVars>>
vars == <<strideVars, mpptVars, solverVars, newVars>>

(***************************************************************************)
(* Stride.py                                                               *)
(***************************************************************************)

\* Stride.__init__
Stride_init(strideType, minStride, VMPP, error) ==
    [ _strideType |-> strideType,
      _minStride  |-> minStride,
      vOld   |-> 0,
      iOld   |-> 0,
      pOld   |-> 0,
      irrOld |-> 0,
      tOld   |-> 0,
      VMPP   |-> VMPP,
      error  |-> error ]

\* Stride.setup
Stride_setup(self, VMPP, error) ==
    [self EXCEPT !.VMPP = VMPP, !.error = error]

\* Stride.getStride returning the tolerance-scaled stride instead.
Stride_getStride_errorStride(self, arrVoltage, arrCurrent, irradiance, temperature) ==
    [ ret |-> (self.VMPP * self.error) \div 1000, self |-> self ]

\* Stride.getStride also recording the operating point.
Stride_getStride_recording(self, arrVoltage, arrCurrent, irradiance, temperature) ==
    [ ret |-> self._minStride,
      self |-> [self EXCEPT !.vOld = arrVoltage, !.iOld = arrCurrent,
                            !.pOld = arrVoltage * arrCurrent,
                            !.irrOld = irradiance, !.tOld = temperature] ]

\* Stride.getStride: the value returned and the object afterwards.
Stride_getStride(self, arrVoltage, arrCurrent, irradiance, temperature) ==
    [ ret |-> self._minStride, self |-> self ]

\* Stride.reset forgetting the power field.
Stride_reset_keepsPower(self) ==
    [self EXCEPT !.vOld = 0, !.iOld = 0, !.irrOld = 0, !.tOld = 0]

\* Stride.reset also restoring the default VMPP and error.
Stride_reset_restoresDefaults(self) ==
    [self EXCEPT !.vOld = 0, !.iOld = 0, !.pOld = 0, !.irrOld = 0, !.tOld = 0,
                 !.VMPP = DefaultVMPP, !.error = DefaultError]

\* Stride.reset
Stride_reset(self) ==
    [self EXCEPT !.vOld = 0, !.iOld = 0, !.pOld = 0, !.irrOld = 0, !.tOld = 0]

\* Stride.getStrideType
Stride_getStrideType(self) == self._strideType

\* The per-cycle history update of the history-aware calculators and of the
\* algorithm owning the calculator: the fields are public attributes, and the
\* code that writes them is not part of the files modelled here.
RecordHistory(self, arrVoltage, arrCurrent, irradiance, temperature) ==
    [self EXCEPT !.vOld = arrVoltage,
                 !.iOld = arrCurrent,
                 !.pOld = arrVoltage * arrCurrent,
                 !.irrOld = irradiance,
                 !.tOld = temperature]

History(self) == <<self.vOld, self.iOld, self.pOld, self.irrOld, self.tOld>>
Config(self) == <<self._strideType, self._minStride, self.VMPP, self.error>>

StrideInit ==
    \E st \in StrideTypes, ms \in MinStrides, vm \in VMPPs, er \in Errors :
        /\ stride = Stride_init(st, ms, vm, er)
        /\ strideCtor = [strideType |-> st, minStride |-> ms, VMPP |-> vm, error |-> er]
        /\ strideCall = [op |-> "__init__", prev |-> "none"]
        /\ strideRet = "None"

StrideSetup ==
    \E vm \in VMPPs, er \in Errors :
        /\ stride' = Stride_setup(stride, vm, er)
        /\ strideCall' = [op |-> "setup", prev |-> strideCall.op, VMPP |-> vm, error |-> er]
        /\ strideRet' = "None"
        /\ UNCHANGED <<strideCtor, mpptVars, solverVars, newVars>>

StrideGetStride ==
    \E v \in Voltages, i \in Currents, g \in Irradiances, t \in Temperatures :
        LET r == Stride_getStride(stride, v, i, g, t) IN
        /\ stride' = r.self
        /\ strideRet' = r.ret
        /\ strideCall' = [op |-> "getStride", prev |-> strideCall.op,
                          arrVoltage |-> v, arrCurrent |-> i,
                          irradiance |-> g, temperature |-> t]
        /\ UNCHANGED <<strideCtor, mpptVars, solverVars, newVars>>

StrideReset ==
    /\ stride' = Stride_reset(stride)
    /\ strideCall' = [op |-> "reset", prev |-> strideCall.op]
    /\ strideRet' = "None"
    /\ UNCHANGED <<strideCtor, mpptVars, solverVars, newVars>>

StrideRecordHistory ==
    \E v \in Voltages, i \in Currents, g \in Irradiances, t \in Temperatures :
        /\ stride' = RecordHistory(stride, v, i, g, t)
        /\ strideCall' = [op |-> "record", prev |-> strideCall.op]
        /\ strideRet' = "None"
        /\ UNCHANGED <<strideCtor, mpptVars, solverVars, newVars>>

StrideNext ==
    \/ StrideSetup
    \/ StrideGetStride
    \/ StrideReset
    \/ StrideRecordHistory


StrideParked ==
    /\ stride = Stride_init("Fixed", DefaultMinStride, DefaultVMPP, DefaultError)
    /\ strideCtor = [strideType |-> "Fixed", minStride |-> DefaultMinStride,
                     VMPP |-> DefaultVMPP, error |-> DefaultError]
    /\ strideCall = [op |-> "__init__", prev |-> "none"]
    /\ strideRet = "None"

(***************************************************************************)
(* The variants MPPT.py installs (GlobalMPPTAlgo.VoltageSweep, GlobalPando *)
(* and GlobalAlgorithm).  Their files are not among the sources; they are  *)
(* modelled from the specification's sections 3 and 4.5: a variant owns    *)
(* its Stride calculator and its sweep progress, runs a global sweep of    *)
(* SweepLen samples, and then holds (sweep, generic) or refines locally by *)
(* perturb and observe (hybrid).                                           *)
(***************************************************************************)
None == [cls |-> "None"]

GlobalAlgorithm_init(cls, numCells, MPPTName, strideType) ==
    [ cls      |-> cls,
      numCells |-> numCells,
      MPPTName |-> MPPTName,
      stride   |-> Stride_init(strideType, DefaultMinStride, DefaultVMPP, DefaultError),
      phase    |-> "GlobalSearch",
      sweepIdx |-> 0 ]

VoltageSweep(numCells, MPPTName, strideType) ==
    GlobalAlgorithm_init("VoltageSweep", numCells, MPPTName, strideType)

GlobalPando(numCells, MPPTName, strideType) ==
    GlobalAlgorithm_init("GlobalPando", numCells, MPPTName, strideType)

GlobalAlgorithm(numCells, MPPTName, strideType) ==
    GlobalAlgorithm_init("GlobalAlgorithm", numCells, MPPTName, strideType)

\* reset() of a variant: clears the calculator's history and the sweep state.
GlobalAlgorithm_reset(self) ==
    [self EXCEPT !.stride = Stride_reset(@), !.phase = "GlobalSearch", !.sweepIdx = 0]

\* getReferenceVoltage of a variant: the next reference voltage (thousandths)
\* and the object afterwards.
GlobalAlgorithm_getReferenceVoltage(self, arrVoltage, arrCurrent, irradiance, temperature) ==
    IF self.phase = "GlobalSearch" THEN
        LET idx == self.sweepIdx + 1 IN
        IF idx < SweepLen
        THEN [ ret |-> idx * 1000, self |-> [self EXCEPT !.sweepIdx = idx] ]
        ELSE [ ret |-> arrVoltage * 1000,
               self |-> [self EXCEPT !.sweepIdx = idx,
                                     !.phase = IF self.cls = "GlobalPando"
                                               THEN "LocalRefine" ELSE "Holding"] ]
    ELSE IF self.phase = "LocalRefine" THEN
        LET r == Stride_getStride(self.stride, arrVoltage, arrCurrent, irradiance, temperature)
            dP == arrVoltage * arrCurrent - self.stride.pOld
            dV == arrVoltage - self.stride.vOld
            dir == IF dP * dV >= 0 THEN 1 ELSE -1
        IN [ ret |-> arrVoltage * 1000 + dir * r.ret,
             self |-> [self EXCEPT !.stride = RecordHistory(r.self, arrVoltage, arrCurrent,
                                                           irradiance, temperature)] ]
    ELSE [ ret |-> arrVoltage * 1000, self |-> self ]

GlobalAlgorithm_getMPPTType(self) == self.MPPTName
GlobalAlgorithm_getStrideType(self) == Stride_getStrideType(self.stride)

(***************************************************************************)
(* MPPT.py                                                                 *)
(***************************************************************************)

\* MPPT.__init__
MPPT_init == None

\* MPPT.reset without the delegation to the model.
MPPT_reset_noDelegation(self_model) == self_model

\* MPPT.reset dropping the model instead of resetting it.
MPPT_reset_dropsModel(self_model) == None

\* MPPT.reset: self._model afterwards.
MPPT_reset(self_model) ==
    IF self_model # None THEN GlobalAlgorithm_reset(self_model) ELSE self_model

\* MPPT.setupModel with the two tag tests swapped.
MPPT_setupModel_swapped(self_model, numCells, modelType, strideType) ==
    IF modelType = "Default" THEN VoltageSweep(numCells, modelType, strideType)
    ELSE IF modelType = "Voltage Sweep" THEN GlobalPando(numCells, modelType, strideType)
    ELSE GlobalAlgorithm(numCells, modelType, strideType)

\* MPPT.setupModel: self._model afterwards.  The old model, if any, is reset
\* first and then replaced.
MPPT_setupModel(self_model, numCells, modelType, strideType) ==
    LET old == IF self_model # None THEN MPPT_reset(self_model) ELSE self_model IN
    IF modelType = "Voltage Sweep" THEN VoltageSweep(numCells, modelType, strideType)
    ELSE IF modelType = "Default" THEN GlobalPando(numCells, modelType, strideType)
    ELSE GlobalAlgorithm(numCells, modelType, strideType)

\* MPPT.getReferenceVoltage: the outcome and self._model afterwards.  A call
\* on None raises AttributeError.
MPPT_getReferenceVoltage(self_model, arrVoltage, arrCurrent, irradiance, temperature) ==
    IF self_model = None
    THEN [ err |-> "AttributeError", val |-> 0, self |-> self_model ]
    ELSE LET r == GlobalAlgorithm_getReferenceVoltage(self_model, arrVoltage, arrCurrent,
                                                      irradiance, temperature)
         IN [ err |-> "none", val |-> r.ret, self |-> r.self ]

\* MPPT.getMPPTType
MPPT_getMPPTType(self_model) ==
    IF self_model = None
    THEN [ err |-> "AttributeError", val |-> "None" ]
    ELSE [ err |-> "none", val |-> GlobalAlgorithm_getMPPTType(self_model) ]

\* A stride type answered when no model is installed.
MPPT_getStrideType_default(self_model) ==
    IF self_model = None
    THEN [ err |-> "none", val |-> "Fixed" ]
    ELSE [ err |-> "none", val |-> GlobalAlgorithm_getStrideType(self_model) ]

\* MPPT.getStrideType
MPPT_getStrideType(self_model) ==
    IF self_model = None
    THEN [ err |-> "AttributeError", val |-> "None" ]
    ELSE [ err |-> "none", val |-> GlobalAlgorithm_getStrideType(self_model) ]

\* The identity of a newly constructed model object: two identities are
\* enough to tell the installed object from the one that replaces it.
NewId(id) == IF id = 1 THEN 2 ELSE 1

\* The new model installed first and reset afterwards.
MPPT_setupModel_events_resetAfter(self_model, id) ==
    << [ev |-> "construct", obj |-> NewId(id)], [ev |-> "install", obj |-> NewId(id)] >>
    \o (IF self_model # None THEN << [ev |-> "reset", obj |-> NewId(id)] >> ELSE << >>)

\* MPPT.setupModel: the statements that touch a model object, in program
\* order, for self._model being the object id.
MPPT_setupModel_events(self_model, id) ==
    (IF self_model # None THEN << [ev |-> "reset", obj |-> id] >> ELSE << >>)
    \o << [ev |-> "construct", obj |-> NewId(id)], [ev |-> "install", obj |-> NewId(id)] >>

\* MPPT.reset: the same.
MPPT_reset_events(self_model, id) ==
    IF self_model # None THEN << [ev |-> "reset", obj |-> id] >> ELSE << >>

MPPTInit ==
    /\ _model = MPPT_init
    /\ mpptCall = [op |-> "__init__", prev |-> "none"]
    /\ mpptRet = [err |-> "none", val |-> "None"]
    /\ modelId = 0
    /\ mpptEvents = << >>

SetupModel ==
    \E n \in NumCells, mt \in ModelTypes, st \in StrideTypes :
        /\ _model' = MPPT_setupModel(_model, n, mt, st)
        /\ mpptCall' = [op |-> "setupModel", prev |-> mpptCall.op,
                        numCells |-> n, modelType |-> mt, strideType |-> st,
                        hadModel |-> _model # None, oldId |-> modelId]
        /\ mpptRet' = [err |-> "none", val |-> "None"]
        /\ modelId' = NewId(modelId)
        /\ mpptEvents' = MPPT_setupModel_events(_model, modelId)
        /\ UNCHANGED <<strideVars, solverVars, newVars>>

Reset ==
    /\ _model' = MPPT_reset(_model)
    /\ mpptCall' = [op |-> "reset", prev |-> mpptCall.op, before |-> _model]
    /\ mpptRet' = [err |-> "none", val |-> "None"]
    /\ mpptEvents' = MPPT_reset_events(_model, modelId)
    /\ UNCHANGED modelId
    /\ UNCHANGED <<strideVars, solverVars, newVars>>

GetReferenceVoltage ==
    \E v \in Voltages, i \in Currents, g \in Irradiances, t \in Temperatures :
        LET r == MPPT_getReferenceVoltage(_model, v, i, g, t) IN
        /\ _model' = r.self
        /\ mpptCall' = [op |-> "getReferenceVoltage", prev |-> mpptCall.op,
                        arrVoltage |-> v, arrCurrent |-> i,
                        irradiance |-> g, temperature |-> t]
        /\ mpptRet' = [err |-> r.err, val |-> r.val]
        /\ mpptEvents' = << >>
        /\ UNCHANGED <<modelId, strideVars, solverVars, newVars>>

GetMPPTType ==
    /\ mpptCall' = [op |-> "getMPPTType", prev |-> mpptCall.op]
    /\ mpptRet' = MPPT_getMPPTType(_model)
    /\ mpptEvents' = << >>
    /\ UNCHANGED <<_model, modelId, strideVars, solverVars, newVars>>

GetStrideType ==
    /\ mpptCall' = [op |-> "getStrideType", prev |-> mpptCall.op]
    /\ mpptRet' = MPPT_getStrideType(_model)
    /\ mpptEvents' = << >>
    /\ UNCHANGED <<_model, modelId, strideVars, solverVars, newVars>>

MPPTNext ==
    \/ SetupModel
    \/ Reset
    \/ GetReferenceVoltage
    \/ GetMPPTType
    \/ GetStrideType

(***************************************************************************)
(* PVCellNonideal.getCurrent: the iterative solution of the implicit       *)
(* equation.  The float expressions of lines 38-69 and 76-88 (exp, ln)     *)
(* are not computed here: an input (voltage, irradiance, temperature) is   *)
(* represented by the residual (left - right) ** 2 it yields at each       *)
(* candidate, and a NaN input by a residual that is NaN at every           *)
(* candidate.  math.exp raises OverflowError once its argument, which      *)
(* grows with the candidate, exceeds the float range: MaxCand stands for   *)
(* the last candidate before that.                                         *)
(***************************************************************************)
NaN == -1
Residuals == [0..MaxCand -> 0..MaxResid] \cup {[k \in 0..MaxCand |-> NaN]}

\* x <= 0.0 for the float x = a - b: false when either operand is NaN.
DiffLeqZero(a, b) == a # NaN /\ b # NaN /\ a - b <= 0

\* Line 112: (difference - (left - right) ** 2) <= 0.0
StopTest(d, new) == DiffLeqZero(d, new)

\* Lines 72-91: the state when the while loop is entered.
SolverInit ==
    \E r \in Residuals :
        /\ resid = r
        /\ currentPrediction = 0
        /\ difference = r[0]
        /\ decreasing = TRUE
        /\ solverPc = "scan"
        /\ solverRet = [err |-> "none", val |-> 0]

SolverParked ==
    /\ resid = [k \in 0..MaxCand |-> 0]
    /\ currentPrediction = 0
    /\ difference = 0
    /\ decreasing = TRUE
    /\ solverPc = "scan"
    /\ solverRet = [err |-> "none", val |-> 0]

\* Lines 93-114: one iteration of the while loop.
ScanStep ==
    /\ solverPc = "scan"
    /\ decreasing
    /\ currentPrediction < MaxCand
    /\ currentPrediction' = currentPrediction + Increment
    /\ decreasing' = ~StopTest(difference, resid[currentPrediction + Increment])
    /\ difference' = resid[currentPrediction + Increment]
    /\ UNCHANGED <<resid, solverPc, solverRet, strideVars, mpptVars, newVars>>

\* Lines 97-108: exp raises OverflowError, which ends the call.
ScanOverflow ==
    /\ solverPc = "scan"
    /\ decreasing
    /\ currentPrediction >= MaxCand
    /\ solverPc' = "done"
    /\ solverRet' = [err |-> "OverflowError", val |-> 0]
    /\ UNCHANGED <<resid, currentPrediction, difference, decreasing, strideVars, mpptVars, newVars>>

\* The candidate before the last increment returned.
Return_previousCandidate ==
    /\ solverPc = "scan"
    /\ ~decreasing
    /\ solverPc' = "done"
    /\ solverRet' = [err |-> "none",
                     val |-> (currentPrediction - Increment) * CalibrationFactor]
    /\ UNCHANGED <<resid, currentPrediction, difference, decreasing, strideVars, mpptVars, newVars>>

\* Line 117: return currentPrediction * 10
Return ==
    /\ solverPc = "scan"
    /\ ~decreasing
    /\ solverPc' = "done"
    /\ solverRet' = [err |-> "none", val |-> currentPrediction * CalibrationFactor]
    /\ UNCHANGED <<resid, currentPrediction, difference, decreasing, strideVars, mpptVars, newVars>>

SolverNext ==
    \/ ScanStep
    \/ ScanOverflow
    \/ Return

(***************************************************************************)
(* PVCellIdeal.py, PVCellNonideal.py: getCurrent and the lookup table.     *)
(* Voltages, irradiances, temperatures and currents of the cell model are  *)
(* in ten-thousandths (0.001 is Eps = 10), so that rounding to 3 decimal   *)
(* places is rounding to a multiple of Eps.                                *)
(*                                                                         *)
(* The float expressions of getCurrent (short circuit current, open        *)
(* circuit voltage, saturation and diode current: exp, ln, and the         *)
(* reference values of the PVCell base class) are not computed.  They are  *)
(* represented by DiodeLevel, a function of the locals voltage,            *)
(* irradiance and temperature as they are after the zero test, taken from  *)
(* the family Physics; every property is checked for each member.          *)
(***************************************************************************)
CellModels == {"Ideal", "Nonideal"}
Physics == {[a |-> 1, d |-> 0], [a |-> 2, d |-> 1]}

DiodeLevel(p, voltage, irradiance, temperature) ==
    ((p.a * voltage + irradiance + temperature) \div Eps + p.d) % MaxCand

\* The zero test left out.
ClampZero_none(x) == x

\* if x == 0.0: x = 0.001
ClampZero(x) == IF x = 0 THEN Eps ELSE x

\* PVCellIdeal.getCurrent after the zero tests: PVCurrent - diodeCurrent.
PVCellIdeal_equation(p, voltage, irradiance, temperature) ==
    [ err |-> "none",
      val |-> (1 - DiodeLevel(p, voltage, irradiance, temperature)) * Eps ]

\* The residual (left - right) ** 2 at each candidate, for the locals given.
ResidualProfile(p, voltage, irradiance, temperature) ==
    LET level == DiodeLevel(p, voltage, irradiance, temperature)
    IN [k \in 0..MaxCand |-> (k - level) * (k - level)]

\* The while loop of PVCellNonideal.getCurrent from candidate k on: the
\* candidate it ends at, or -1 when exp overflows first.
RECURSIVE ScanFrom(_, _, _)
ScanFrom(r, k, d) ==
    IF k >= MaxCand THEN -1
    ELSE LET new == r[k + Increment]
         IN IF StopTest(d, new) THEN k + Increment
            ELSE ScanFrom(r, k + Increment, new)

\* PVCellNonideal.getCurrent after the zero tests.
PVCellNonideal_solve(p, voltage, irradiance, temperature) ==
    LET r == ResidualProfile(p, voltage, irradiance, temperature)
        k == ScanFrom(r, 0, r[0])
    IN IF k < 0 THEN [ err |-> "OverflowError", val |-> 0 ]
       ELSE [ err |-> "none", val |-> k * Eps * CalibrationFactor ]

\* PVCellIdeal.getCurrent
PVCellIdeal_getCurrent(p, voltage, irradiance, temperature) ==
    PVCellIdeal_equation(p, ClampZero(voltage), ClampZero(irradiance), temperature)

\* PVCellNonideal.getCurrent
PVCellNonideal_getCurrent(p, voltage, irradiance, temperature) ==
    PVCellNonideal_solve(p, ClampZero(voltage), ClampZero(irradiance), temperature)

Cell_getCurrent(model, p, voltage, irradiance, temperature) ==
    IF model = "Ideal" THEN PVCellIdeal_getCurrent(p, voltage, irradiance, temperature)
    ELSE PVCellNonideal_getCurrent(p, voltage, irradiance, temperature)

Cell_equation(model, p, voltage, irradiance, temperature) ==
    IF model = "Ideal" THEN PVCellIdeal_equation(p, voltage, irradiance, temperature)
    ELSE PVCellNonideal_solve(p, voltage, irradiance, temperature)

(***************************************************************************)
(* Lookup: the table object behind getCurrentLookup.  A row is             *)
(* <<voltage, irradiance, temperature, current>>; the backing file holds   *)
(* each field as decimal text with three decimal places.                   *)
(***************************************************************************)
Abs(x) == IF x < 0 THEN -x ELSE x

\* round(x, 3)
Round3(x) == ((x + Eps \div 2) \div Eps) * Eps

\* np.arange(0, stop, step) for step > 0
ArangeLen(stop, step) == (stop + step - 1) \div step
Arange(stop, step) == [i \in 1..ArangeLen(stop, step) |-> (i - 1) * step]

FormatField(x) ==
    [ sign  |-> IF x < 0 THEN "-" ELSE "",
      int   |-> Abs(x) \div (1000 * Eps),
      milli |-> (Abs(x) % (1000 * Eps)) \div Eps ]

ParseField(f) ==
    (IF f.sign = "-" THEN -1 ELSE 1) * (f.int * 1000 * Eps + f.milli * Eps)

FormatRows(rows) == [i \in DOMAIN rows |-> [j \in DOMAIN rows[i] |-> FormatField(rows[i][j])]]
ParseRows(text) == [i \in DOMAIN text |-> [j \in DOMAIN text[i] |-> ParseField(text[i][j])]]

Lookup_init(fileName) == [fileName |-> fileName, rows |-> << >>]
Lookup_addLines(self, lines) == [self EXCEPT !.rows = @ \o lines]
Lookup_writeFile(self, fs) == [fs EXCEPT ![self.fileName] = FormatRows(self.rows)]
Lookup_readFile(self, fs) == [self EXCEPT !.rows = ParseRows(fs[self.fileName])]

KeyOf(row) == <<row[1], row[2], row[3]>>

\* The rows of the table that carry the key, after the key is rounded.
Lookup_hits(self, key) ==
    LET k == <<Round3(key[1]), Round3(key[2]), Round3(key[3])>>
    IN {i \in DOMAIN self.rows : KeyOf(self.rows[i]) = k}

\* Lookup.lookup: the list of values stored under the key; a key that is not
\* in the table is an error.
Lookup_lookup(self, impl, key) ==
    LET hits == Lookup_hits(self, key)
        i == IF impl = "first" THEN CHOOSE h \in hits : \A j \in hits : h <= j
             ELSE CHOOSE h \in hits : \A j \in hits : h >= j
    IN IF hits = {} THEN [ err |-> "CacheMiss" ]
       ELSE [ err |-> "none", val |-> <<self.rows[i][4]>> ]

\* A miss answered with a current of zero.
PVCellNonideal_getCurrentLookup_defaultZero(self_lookup, impl, voltage, irradiance, temperature) ==
    LET r == Lookup_lookup(self_lookup, impl, <<voltage, irradiance, temperature>>)
    IN IF r.err # "none" THEN [ err |-> "none", val |-> 0 ]
       ELSE [ err |-> "none", val |-> r.val[1] ]

\* PVCellNonideal.getCurrentLookup
PVCellNonideal_getCurrentLookup(self_lookup, impl, voltage, irradiance, temperature) ==
    LET r == Lookup_lookup(self_lookup, impl, <<voltage, irradiance, temperature>>)
    IN IF r.err # "none" THEN r
       ELSE [ err |-> "none", val |-> r.val[1] ]

\* A point with a current of zero dropped as well.
KeepPoint_positive(current) == current > 0

\* if current >= 0.0
KeepPoint(current) == current >= 0

\* The for loop of getCellIV from the i-th scanned voltage on.
RECURSIVE ScanIV(_, _, _, _, _, _, _)
ScanIV(self_lookup, impl, scan, i, irradiance, temperature, model) ==
    IF i > Len(scan) THEN [ err |-> "none", val |-> model ]
    ELSE LET current == PVCellNonideal_getCurrentLookup(self_lookup, impl, scan[i],
                                                         irradiance, temperature)
         IN IF current.err # "none" THEN current
            ELSE ScanIV(self_lookup, impl, scan, i + 1, irradiance, temperature,
                        IF KeepPoint(current.val)
                        THEN Append(model, <<scan[i], current.val>>) ELSE model)

\* PVCellNonideal.getCellIV
PVCellNonideal_getCellIV(self_lookup, impl, resolution, irradiance, temperature) ==
    LET res == IF resolution <= 0 THEN MIN_RESOLUTION ELSE resolution
    IN ScanIV(self_lookup, impl, Arange(MAX_VOLTAGE, res), 1, irradiance, temperature, << >>)

\* The irradiance written in the place of the temperature.
BuildLine_irradianceTwice(p, voltage, irradiance, temperature) ==
    LET current == PVCellNonideal_getCurrent(p, voltage, irradiance, temperature)
    IN [ err  |-> current.err,
         line |-> <<Round3(voltage), Round3(irradiance),
                    Round3(irradiance), Round3(current.val)>> ]

\* The body of the innermost loop of buildCurrentLookup: the outcome of
\* getCurrent and the line to add.
BuildLine(p, voltage, irradiance, temperature) ==
    LET current == PVCellNonideal_getCurrent(p, voltage, irradiance, temperature)
    IN [ err  |-> current.err,
         line |-> <<Round3(voltage), Round3(irradiance),
                    Round3(temperature), Round3(current.val)>> ]

\* The i-th point visited by the three nested for loops, the voltage loop
\* being the outermost, when the loops make nG and nT rounds.
GridPoint(i, nG, nT, voltageRes, irradianceRes, temperatureRes) ==
    << ((i - 1) \div (nG * nT)) * voltageRes,
       (((i - 1) \div nT) % nG) * irradianceRes,
       ((i - 1) % nT) * temperatureRes >>

\* The voltage loop stopping at MAX_VOLTAGE.
BuildLines_toMaxVoltage(p, voltageRes, irradianceRes, temperatureRes) ==
    LET nV == ArangeLen(MAX_VOLTAGE, voltageRes)
        nG == ArangeLen(IrradianceStop, irradianceRes)
        nT == ArangeLen(TemperatureStop, temperatureRes)
    IN [i \in 1..(nV * nG * nT) |->
          LET pt == GridPoint(i, nG, nT, voltageRes, irradianceRes, temperatureRes)
          IN BuildLine(p, pt[1], pt[2], pt[3])]

\* The three nested for loops of buildCurrentLookup: for each grid point, in
\* the order of the loops, the outcome of getCurrent and the line to add.
BuildLines(p, voltageRes, irradianceRes, temperatureRes) ==
    LET nV == ArangeLen(VoltageStop, voltageRes)
        nG == ArangeLen(IrradianceStop, irradianceRes)
        nT == ArangeLen(TemperatureStop, temperatureRes)
    IN [i \in 1..(nV * nG * nT) |->
          LET pt == GridPoint(i, nG, nT, voltageRes, irradianceRes, temperatureRes)
          IN BuildLine(p, pt[1], pt[2], pt[3])]

\* lookup.readFile() and the assignment to self._lookup, writeFile left out.
Build_install_noWrite(lines, fs, self_lookup, fileName) ==
    LET lookup == Lookup_addLines(Lookup_init(fileName),
                                  [i \in DOMAIN lines |-> lines[i].line])
    IN IF \E i \in DOMAIN lines : lines[i].err # "none"
       THEN [ err |-> "OverflowError", files |-> fs, lookup |-> self_lookup ]
       ELSE [ err |-> "none", files |-> fs, lookup |-> Lookup_readFile(lookup, fs) ]

\* The lines added to a new Lookup, then lookup.writeFile(), lookup.readFile()
\* and the assignment to self._lookup; nothing of it when getCurrent raised.
Build_install(lines, fs, self_lookup, fileName) ==
    LET lookup == Lookup_addLines(Lookup_init(fileName),
                                  [i \in DOMAIN lines |-> lines[i].line])
    IN IF \E i \in DOMAIN lines : lines[i].err # "none"
       THEN [ err |-> "OverflowError", files |-> fs, lookup |-> self_lookup ]
       ELSE CHOOSE r \in { [ err |-> "none", files |-> written,
                             lookup |-> Lookup_readFile(lookup, written) ] :
                           written \in {Lookup_writeFile(lookup, fs)} } : TRUE

\* PVCellNonideal.buildCurrentLookup: the files and self._lookup after it.
PVCellNonideal_buildCurrentLookup(p, fs, self_lookup, fileName, voltageRes, irradianceRes, temperatureRes) ==
    Build_install(BuildLines(p, voltageRes, irradianceRes, temperatureRes),
                  fs, self_lookup, fileName)

CellVoltages == {0, Eps, 4000}
CellIrradiances == {0, Eps, 10000000}
CellTemperatures == {0, 250000}

BuildFileNames == {"NonidealCellLookup2.csv"}
BuildResolutions ==
    { <<4000, 5000000, 400000>>, <<2000, 5000000, 400000>>, <<8, 20000000, 1000000>> }
LookupQueries ==
    { <<0, 10000000, 250000>>, <<4000, 10000000, 250000>>, <<16, 0, 0>>,
      <<4000, 0, 0>>, <<8000, 0, 0>>, <<4004, 5000000, 400000>> }
CellIVQueries ==
    { <<0, 10000000, 250000>>, <<4000, 10000000, 250000>>, <<4000, 0, 0>>,
      <<2000, 0, 0>>, <<2000, 5000000, 400000>> }

\* The content of NonidealCellLookup.csv when the cell model is constructed:
\* rows (voltage, irradiance, temperature, current).
InitialTables ==
    { << <<0, 10000000, 250000, 600>>, <<4000, 10000000, 250000, 0>> >>,
      << <<0, 10000000, 250000, 600>>, <<4000, 10000000, 250000, -100>> >> }

\* PVCellNonideal.__init__
CellInit ==
    \E p \in Physics, impl \in {"first", "last"}, t \in InitialTables :
        /\ physics = p
        /\ lookupImpl = impl
        /\ files = [n \in {"NonidealCellLookup.csv", "NonidealCellLookup2.csv"} |->
                        IF n = "NonidealCellLookup.csv" THEN FormatRows(t) ELSE << >>]
        /\ _lookup = [fileName |-> "NonidealCellLookup.csv", rows |-> t]
        /\ cellCall = [op |-> "__init__"]
        /\ cellRet = [err |-> "none", val |-> 0]

CellParked ==
    /\ physics = [a |-> 1, d |-> 0]
    /\ lookupImpl = "first"
    /\ files = [n \in {"NonidealCellLookup.csv", "NonidealCellLookup2.csv"} |-> << >>]
    /\ _lookup = [fileName |-> "NonidealCellLookup.csv", rows |-> << >>]
    /\ cellCall = [op |-> "__init__"]
    /\ cellRet = [err |-> "none", val |-> 0]


GetCurrent ==
    \E m \in CellModels, v \in CellVoltages, g \in CellIrradiances, t \in CellTemperatures :
        /\ cellCall' = [op |-> "getCurrent", model |-> m,
                        voltage |-> v, irradiance |-> g, temperature |-> t]
        /\ cellRet' = Cell_getCurrent(m, physics, v, g, t)
        /\ UNCHANGED <<physics, lookupImpl, files, _lookup, strideVars, mpptVars, solverVars, curveVars, graphVars>>

BuildCurrentLookup ==
    \E fileName \in BuildFileNames, res \in BuildResolutions :
        \E r \in {PVCellNonideal_buildCurrentLookup(physics, files, _lookup, fileName,
                                                    res[1], res[2], res[3])} :
            /\ files' = r.files
            /\ _lookup' = r.lookup
            /\ cellCall' = [op |-> "buildCurrentLookup", fileName |-> fileName,
                            voltageRes |-> res[1], irradianceRes |-> res[2],
                            temperatureRes |-> res[3]]
            /\ cellRet' = [err |-> r.err]
            /\ UNCHANGED <<physics, lookupImpl, strideVars, mpptVars, solverVars, curveVars, graphVars>>

GetCurrentLookup ==
    \E q \in LookupQueries :
        /\ cellCall' = [op |-> "getCurrentLookup",
                        voltage |-> q[1], irradiance |-> q[2], temperature |-> q[3]]
        /\ cellRet' = PVCellNonideal_getCurrentLookup(_lookup, lookupImpl, q[1], q[2], q[3])
        /\ UNCHANGED <<physics, lookupImpl, files, _lookup, strideVars, mpptVars, solverVars, curveVars, graphVars>>

GetCellIV ==
    \E q \in CellIVQueries :
        /\ cellCall' = [op |-> "getCellIV",
                        resolution |-> q[1], irradiance |-> q[2], temperature |-> q[3]]
        /\ cellRet' = PVCellNonideal_getCellIV(_lookup, lookupImpl, q[1], q[2], q[3])
        /\ UNCHANGED <<physics, lookupImpl, files, _lookup, strideVars, mpptVars, solverVars, curveVars, graphVars>>

CellNext ==
    \/ GetCurrent

LookupNext ==
    \/ BuildCurrentLookup
    \/ GetCurrentLookup
    \/ GetCellIV

(***************************************************************************)
(* DataController.py: generateSourceCurve.  PVEnvironment and PVSource are *)
(* collaborators; what getIV returns is an input of the method.            *)
(***************************************************************************)
CurveVoltages == {0, 4000}
CurveCurrents == {100, 600}
Coordinates == CurveVoltages \X CurveCurrents
IVCurves == UNION {[1..n -> Coordinates] : n \in 0..MaxCoords}

\* Each coordinate's current taken for its voltage and the reverse.
DataController_parse_swapped(IVCoordinates) ==
    << [i \in DOMAIN IVCoordinates |-> IVCoordinates[i][2]],
       [i \in DOMAIN IVCoordinates |-> IVCoordinates[i][1]] >>

\* for coordinate in IVCoordinates, from the i-th coordinate on
RECURSIVE ParseCoordinates(_, _, _, _)
ParseCoordinates(IVCoordinates, i, xVals, yVals) ==
    IF i > Len(IVCoordinates) THEN <<xVals, yVals>>
    ELSE ParseCoordinates(IVCoordinates, i + 1,
                          Append(xVals, IVCoordinates[i][1]),
                          Append(yVals, IVCoordinates[i][2]))

\* generateSourceCurve from the coordinates on: (xVals, yVals)
DataController_parse(IVCoordinates) == ParseCoordinates(IVCoordinates, 1, << >>, << >>)

\* DataController.__init__
CurveInit ==
    /\ _PVEnv = [env |-> << >>, maxCycles |-> 0]
    /\ _PVSource = [modelType |-> "", useLookup |-> FALSE]
    /\ curveCall = [op |-> "__init__"]
    /\ curveRet = << >>

CurveParked == CurveInit

GenerateSourceCurve ==
    \E irradiance \in {0, 10000000}, temperature \in {250000}, voltageResolution \in {Eps},
       modelType \in CellModels, useLookup \in BOOLEAN, IVCoordinates \in IVCurves :
        /\ _PVEnv' = [env |-> <<irradiance, temperature>>, maxCycles |-> 0]
        /\ _PVSource' = [modelType |-> modelType, useLookup |-> useLookup]
        /\ curveCall' = [op |-> "generateSourceCurve", voltageResolution |-> voltageResolution,
                         IVCoordinates |-> IVCoordinates]
        /\ curveRet' = DataController_parse(IVCoordinates)
        /\ UNCHANGED <<strideVars, mpptVars, solverVars, cellVars, graphVars>>

CurveNext ==
    \/ GenerateSourceCurve

(***************************************************************************)
(* Graph.py: the data of the series.  The plot items (self._graph) only    *)
(* mirror the data and are left out.                                       *)
(***************************************************************************)
SeriesIDs == {"voltage", "current"}
SeriesArgs == SeriesIDs \cup {"power"}
PointXs == {0, 1}
PointYs == {2}

\* Graph.__init__: the series dictionary handed in, its data empty.
GraphInit ==
    /\ _series = [id \in SeriesIDs |->
                    [x |-> << >>, y |-> << >>,
                     multiplier |-> IF id = "voltage" THEN 1 ELSE 2]]
    /\ graphCall = [op |-> "__init__"]
    /\ graphRet = [err |-> "none"]

GraphParked == GraphInit

\* Graph.addPoint
Graph_addPoint(self_series, series, datapointX, datapointY) ==
    IF series \in DOMAIN self_series
    THEN [self_series EXCEPT
            ![series].x = Append(@, datapointX),
            ![series].y = Append(@, datapointY * self_series[series].multiplier)]
    ELSE self_series

\* Graph.setPoint: the name series is not bound in the method, so the test
\* of the if statement raises NameError before anything is assigned.
Graph_setPoint(self_series, seriesID, idx, datapointX, datapointY) ==
    [ err |-> "NameError", series |-> self_series ]

\* Graph.clearPoints
Graph_clearPoints(self_series) ==
    [id \in DOMAIN self_series |-> [self_series[id] EXCEPT !.x = << >>, !.y = << >>]]

AddPoint ==
    \E series \in SeriesArgs, x \in PointXs, y \in PointYs :
        /\ series \in SeriesIDs => Len(_series[series].x) < MaxPoints
        /\ _series' = Graph_addPoint(_series, series, x, y)
        /\ graphCall' = [op |-> "addPoint", series |-> series]
        /\ graphRet' = [err |-> "none"]
        /\ UNCHANGED <<strideVars, mpptVars, solverVars, cellVars, curveVars>>

SetPoint ==
    \E seriesID \in SeriesArgs, idx \in 0..(MaxPoints - 1), x \in PointXs, y \in PointYs :
        \E r \in {Graph_setPoint(_series, seriesID, idx, x, y)} :
            /\ _series' = r.series
            /\ graphCall' = [op |-> "setPoint", seriesID |-> seriesID, idx |-> idx,
                             datapointX |-> x, datapointY |-> y]
            /\ graphRet' = [err |-> r.err]
            /\ UNCHANGED <<strideVars, mpptVars, solverVars, cellVars, curveVars>>

ClearPoints ==
    /\ _series' = Graph_clearPoints(_series)
    /\ graphCall' = [op |-> "clearPoints"]
    /\ graphRet' = [err |-> "none"]
    /\ UNCHANGED <<strideVars, mpptVars, solverVars, cellVars, curveVars>>

GraphNext ==
    \/ AddPoint
    \/ SetPoint
    \/ ClearPoints

NewParked == CellParked /\ CurveParked /\ GraphParked

InitCell == CellInit /\ StrideParked /\ MPPTInit /\ SolverParked /\ CurveParked /\ GraphParked

SpecCell == InitCell /\ [][CellNext]_vars

InitLookup == CellInit /\ StrideParked /\ MPPTInit /\ SolverParked /\ CurveParked /\ GraphParked

SpecLookup == InitLookup /\ [][LookupNext]_vars

InitCurve == CurveInit /\ StrideParked /\ MPPTInit /\ SolverParked /\ CellParked /\ GraphParked

SpecCurve == InitCurve /\ [][CurveNext]_vars

InitGraph == GraphInit /\ StrideParked /\ MPPTInit /\ SolverParked /\ CellParked /\ CurveParked

SpecGraph == InitGraph /\ [][GraphNext]_vars

InitSolver == SolverInit /\ StrideParked /\ MPPTInit /\ NewParked

SpecSolver == InitSolver /\ [][SolverNext]_vars

InitMPPT == MPPTInit /\ StrideParked /\ SolverParked /\ NewParked

SpecMPPT == InitMPPT /\ [][MPPTNext]_vars

InitStride == StrideInit /\ MPPTInit /\ SolverParked /\ NewParked

SpecStride == InitStride /\ [][StrideNext]_vars

(***************************************************************************)
(* Properties of the Stride calculator.                                    *)
(***************************************************************************)
ZeroHistory == <<0, 0, 0, 0, 0>>

\* C5: getStride returns the minimum stride the calculator was constructed
\* with, for every input and after every sequence of prior getStride, setup
\* and reset calls (and history updates).
C5_GetStrideReturnsMinStride ==
    strideCall.op = "getStride" => strideRet = strideCtor.minStride

\* C5 witness: getStride was called with a non-zero operating point on a
\* calculator whose history and configuration had been changed before.
C5_Witness ==
    /\ strideCall.op = "getStride"
    /\ strideCall.arrVoltage > 0
    /\ History(stride) # ZeroHistory
    /\ stride.VMPP # strideCtor.VMPP
    /\ strideRet = strideCtor.minStride

\* C6: reset() followed by getStride(inputs) returns the same output and
\* leaves the same history as a freshly constructed calculator with the same
\* configuration given those inputs as its first call; a second reset()
\* changes nothing.
C6_ResetThenGetStrideAsFresh ==
    [][ /\ (strideCall.op = "reset" /\ strideCall'.op = "getStride") =>
            LET c == strideCall'
                fresh == Stride_getStride(
                            Stride_init(stride._strideType, stride._minStride,
                                        stride.VMPP, stride.error),
                            c.arrVoltage, c.arrCurrent, c.irradiance, c.temperature)
            IN /\ strideRet' = fresh.ret
               /\ stride' = fresh.self
        /\ (strideCall.op = "reset" /\ strideCall'.op = "reset") => stride' = stride
      ]_strideVars

\* C6 witness: getStride right after a reset, on a calculator that was set up
\* again after construction.
C6_Witness ==
    /\ strideCall.op = "getStride"
    /\ strideCall.prev = "reset"
    /\ strideCall.arrVoltage > 0
    /\ stride.error # strideCtor.error

\* C7: reset() zeroes the five history fields and leaves the stride type, the
\* minimum stride, the estimated VMPP and the error tolerance as they were.
C7_ResetZeroesHistoryKeepsConfig ==
    [][ strideCall'.op = "reset" =>
            /\ History(stride') = ZeroHistory
            /\ Config(stride') = Config(stride) ]_strideVars

\* C7 witness: reset() acted on a calculator with a recorded history and a
\* configuration changed by setup().
C7_Witness ==
    /\ strideCall.op = "reset"
    /\ strideCall.prev = "record"
    /\ History(stride) = ZeroHistory
    /\ Config(stride) # <<strideCtor.strideType, strideCtor.minStride,
                          strideCtor.VMPP, strideCtor.error>>

\* C8 (as claimed): after each getStride(v, i, G, T) call the history fields
\* hold that call's operating point.
C8_GetStrideRecordsOperatingPoint ==
    strideCall.op = "getStride" =>
        History(stride) = <<strideCall.arrVoltage, strideCall.arrCurrent,
                            strideCall.arrVoltage * strideCall.arrCurrent,
                            strideCall.irradiance, strideCall.temperature>>

\* C8 (amended): getStride of the base calculator does not touch the history:
\* after a getStride call the five history fields hold the values they held
\* before the call.
C8_GetStrideLeavesHistory ==
    [][ strideCall'.op = "getStride" => History(stride') = History(stride) ]_strideVars

\* C8 witness: getStride was called with an operating point other than the
\* recorded one, and the history still holds the recorded one.
C8_Witness ==
    /\ strideCall.op = "getStride"
    /\ strideCall.prev = "record"
    /\ History(stride) # ZeroHistory
    /\ stride.vOld # strideCall.arrVoltage

(***************************************************************************)
(* Properties of the MPPT engine.                                          *)
(***************************************************************************)

\* The variant the specification assigns to a tag.
VariantOfTag(tag) ==
    IF tag = "Voltage Sweep" THEN "VoltageSweep"
    ELSE IF tag = "Default" THEN "GlobalPando"
    ELSE "GlobalAlgorithm"

\* C1: after a setupModel call the installed variant is the one the call's tag
\* selects, whatever numCells, strideType and the calls before it were:
\* "Voltage Sweep" the sweep variant, "Default" the hybrid variant, every other
\* non-empty tag the generic global variant.
C1_VariantSelectedByTag ==
    (mpptCall.op = "setupModel" /\ mpptCall.modelType # "") =>
        /\ _model # None
        /\ _model.cls = VariantOfTag(mpptCall.modelType)

\* C1 witness: a setupModel call with a tag of neither special name, made
\* right after another setupModel call, installed the generic variant.
C1_Witness ==
    /\ mpptCall.op = "setupModel"
    /\ mpptCall.prev = "setupModel"
    /\ mpptCall.modelType = "default"
    /\ mpptCall.numCells = MaxCells
    /\ mpptCall.strideType = "Adaptive"
    /\ _model.cls = "GlobalAlgorithm"

\* C2 (as claimed): setupModel with the empty tag ends in a configuration
\* error and installs no model for it.
C2_InvalidTagFailsFast ==
    (mpptCall.op = "setupModel" /\ mpptCall.modelType = "") =>
        /\ mpptRet.err # "none"
        /\ (_model = None \/ _model.MPPTName # "")

\* C9: reset() on an engine with a model installed clears the calculator's
\* history and the sweep state: the model is then the one setupModel installs
\* for the same numCells, tag and stride type.
C9_ResetReturnsToPreSweep ==
    (mpptCall.op = "reset" /\ mpptCall.before # None) =>
        LET b == mpptCall.before IN
        /\ _model = MPPT_setupModel(None, b.numCells, b.MPPTName, b.stride._strideType)
        /\ History(_model.stride) = ZeroHistory
        /\ _model.phase = "GlobalSearch"
        /\ _model.sweepIdx = 0

\* C9 witness: reset() acted on a hybrid engine that was refining locally
\* with a recorded history.
C9_Witness ==
    /\ mpptCall.op = "reset"
    /\ mpptCall.before # None
    /\ mpptCall.before.phase = "LocalRefine"
    /\ History(mpptCall.before.stride) # ZeroHistory
    /\ _model.phase = "GlobalSearch"

\* C10: the engine has no model until setupModel, which puts it in
\* GlobalSearch; the hybrid variant moves from GlobalSearch to LocalRefine
\* exactly in the getReferenceVoltage call that completes the sweep;
\* LocalRefine is left only by reset() or setupModel; and the
\* getReferenceVoltage call that follows a reset() is a sweep step.
C10_EngineStateMachine ==
    /\ _model = None
    /\ [][ /\ (_model = None /\ _model' # None) => mpptCall'.op = "setupModel"
           /\ mpptCall'.op = "setupModel" =>
                (_model' # None /\ _model'.phase = "GlobalSearch" /\ _model'.sweepIdx = 0)
           /\ (/\ _model # None /\ _model' # None
               /\ _model.cls = "GlobalPando"
               /\ mpptCall'.op # "setupModel") =>
                ( (_model.phase = "GlobalSearch" /\ _model'.phase = "LocalRefine")
                  <=> ( /\ mpptCall'.op = "getReferenceVoltage"
                        /\ _model.phase = "GlobalSearch"
                        /\ _model.sweepIdx + 1 = SweepLen ) )
           /\ (/\ _model # None
               /\ _model.phase = "LocalRefine"
               /\ (_model' = None \/ _model'.phase # "LocalRefine")) =>
                mpptCall'.op \in {"reset", "setupModel"}
           /\ (/\ mpptCall.op = "reset" /\ mpptCall.before # None
               /\ mpptCall'.op = "getReferenceVoltage") =>
                (_model # None /\ _model.phase = "GlobalSearch" /\ _model'.sweepIdx = 1)
         ]_vars

\* C10 witness: a hybrid engine, reset while refining locally, has swept
\* again and is back in LocalRefine.
C10_Witness ==
    /\ _model # None
    /\ _model.cls = "GlobalPando"
    /\ _model.phase = "LocalRefine"
    /\ mpptCall.op = "getReferenceVoltage"
    /\ History(_model.stride) # ZeroHistory

(***************************************************************************)
(* Properties of the nonideal solver.                                      *)
(***************************************************************************)

\* The first increment whose residual fails to decrease.
FirstFail(r) ==
    CHOOSE k \in 1..MaxCand :
        /\ r[k] >= r[k - 1]
        /\ \A j \in 1..(k - 1) : r[j] < r[j - 1]

\* C3 (as claimed): the value returned is the calibration factor times the
\* candidate of the step before the first increment whose residual fails to
\* decrease.
C3_ReturnsPreviousCandidate ==
    (solverPc = "done" /\ solverRet.err = "none") =>
        solverRet.val = CalibrationFactor * (FirstFail(resid) - 1) * Increment

\* C4 (as claimed): when the residual is still decreasing after the bounded
\* number of iterations, the call has ended and its outcome is the distinct
\* "solver did not converge" condition.
C4_NonConvergenceSurfaced ==
    (currentPrediction >= MaxCand /\ decreasing) =>
        (solverPc = "done" /\ solverRet.err = "SolverDidNotConverge")

\* C21: whenever PVCellNonideal.getCurrent returns, the result is 10 times
\* a candidate k * 0.001 A with integer k >= 1, the scan loop having made at
\* least one increment: the current returned is at least 0.01 A, never zero
\* or negative, whatever the input, voltages at or beyond open circuit
\* included.
C21_ReturnsAtLeastOneIncrement ==
    (solverPc = "done" /\ solverRet.err = "none") =>
        /\ currentPrediction >= Increment
        /\ \E k \in 1..MaxCand :
              /\ currentPrediction = k * Increment
              /\ solverRet.val = CalibrationFactor * k * Increment
        /\ solverRet.val >= 10
        /\ solverRet.val > 0

\* C21 witness: the residual did not decrease at the first increment, as at
\* a voltage at or beyond open circuit, and the call returned 0.01 A.
C21_Witness ==
    /\ solverPc = "done"
    /\ solverRet.err = "none"
    /\ resid[0] # NaN
    /\ resid[1] >= resid[0]
    /\ currentPrediction = Increment
    /\ solverRet.val = 10

(***************************************************************************)
(* Properties of the cell models and of the lookup table.                  *)
(***************************************************************************)

\* C11: in the Ideal and the Nonideal getCurrent a voltage of 0 and an
\* irradiance of 0 are each replaced by 0.001 before the computation:
\* getCurrent(0, G, T) is getCurrent(0.001, G, T), getCurrent(v, 0, T) is
\* getCurrent(v, 0.001, T), and non-zero values are used as they are.
C11_ZeroClampedToEps ==
    cellCall.op = "getCurrent" =>
        LET c == cellCall IN
        /\ c.voltage = 0 =>
             cellRet = Cell_getCurrent(c.model, physics, Eps, c.irradiance, c.temperature)
        /\ c.irradiance = 0 =>
             cellRet = Cell_getCurrent(c.model, physics, c.voltage, Eps, c.temperature)
        /\ (c.voltage # 0 /\ c.irradiance # 0) =>
             cellRet = Cell_equation(c.model, physics, c.voltage, c.irradiance, c.temperature)

\* C11 witness: getCurrent was called with a zero voltage and a zero
\* irradiance, and what it returned is not what the equations give at 0.
C11_Witness ==
    /\ cellCall.op = "getCurrent"
    /\ cellCall.voltage = 0
    /\ cellCall.irradiance = 0
    /\ cellRet # Cell_equation(cellCall.model, physics, 0, 0, cellCall.temperature)
    /\ cellRet = Cell_equation(cellCall.model, physics, Eps, Eps, cellCall.temperature)

Built == cellCall.op = "buildCurrentLookup" /\ cellRet.err = "none"

Multiples(step, stop) == {k * step : k \in 0..(stop \div step)}

RowSet(rows) == {rows[i] : i \in DOMAIN rows}

\* The row the table is to hold for a grid point.
GridRow(v, g, t) ==
    <<Round3(v), Round3(g), Round3(t),
      Round3(PVCellNonideal_getCurrent(physics, v, g, t).val)>>

\* Each resolution of the build is a positive multiple of 0.001.
ResolutionsInThousandths ==
    \A res \in {cellCall.voltageRes, cellCall.irradianceRes, cellCall.temperatureRes} :
        res > 0 /\ res % Eps = 0

\* C12 as claimed: buildCurrentLookup adds exactly one row per point of the
\* grid of voltage in [0, MAX_VOLTAGE), irradiance in [0, 1000] and
\* temperature in [0, 80] at the given resolutions, each row being the point
\* and the current getCurrent gives there, every field rounded to 3 decimals.
C12_OneRowPerPointBelowMaxVoltage ==
    Built =>
        LET V == {v \in Multiples(cellCall.voltageRes, MAX_VOLTAGE) : v < MAX_VOLTAGE}
            G == {g \in Multiples(cellCall.irradianceRes, 1000 * 1000 * Eps) :
                      g <= 1000 * 1000 * Eps}
            T == {t \in Multiples(cellCall.temperatureRes, 80 * 1000 * Eps) :
                      t <= 80 * 1000 * Eps}
        IN /\ Len(_lookup.rows) = Cardinality(V) * Cardinality(G) * Cardinality(T)
           /\ RowSet(_lookup.rows) = {GridRow(v, g, t) : v \in V, g \in G, t \in T}

\* C12 amended: buildCurrentLookup adds exactly one row per point of the
\* grid of voltage in [0, 0.81), irradiance in [0, 1000.1) and temperature in
\* [0, 80.1) at the given resolutions (so voltage 0.8, irradiance 1000 and
\* temperature 80 are included when they are grid multiples), each row being
\* the point and the current getCurrent gives there, every field rounded to
\* 3 decimals.
C12_OneRowPerPointBelowStop ==
    Built =>
        LET V == {v \in Multiples(cellCall.voltageRes, VoltageStop) : v < VoltageStop}
            G == {g \in Multiples(cellCall.irradianceRes, IrradianceStop) :
                      g < IrradianceStop}
            T == {t \in Multiples(cellCall.temperatureRes, TemperatureStop) :
                      t < TemperatureStop}
        IN /\ Len(_lookup.rows) = Cardinality(V) * Cardinality(G) * Cardinality(T)
           /\ RowSet(_lookup.rows) = {GridRow(v, g, t) : v \in V, g \in G, t \in T}

\* C12 witness: a build whose voltage resolution divides 0.8 has added the
\* rows of voltage 0.8, irradiance 1000 and temperature 80.
C12_Witness ==
    /\ Built
    /\ MAX_VOLTAGE % cellCall.voltageRes = 0
    /\ \E i \in DOMAIN _lookup.rows :
          KeyOf(_lookup.rows[i]) = <<MAX_VOLTAGE, 1000 * 1000 * Eps, 80 * 1000 * Eps>>

\* C13 as claimed: in a table built by buildCurrentLookup for any resolution
\* triple no two rows carry the same rounded key.
C13_KeysUnique ==
    Built =>
        Cardinality({KeyOf(_lookup.rows[i]) : i \in DOMAIN _lookup.rows})
            = Len(_lookup.rows)

\* C13 amended: in a table built by buildCurrentLookup with each resolution
\* a positive multiple of 0.001 no two rows carry the same rounded key.
C13_KeysUniqueFromThousandths ==
    (Built /\ ResolutionsInThousandths) =>
        Cardinality({KeyOf(_lookup.rows[i]) : i \in DOMAIN _lookup.rows})
            = Len(_lookup.rows)

\* C13 witness: a table of several rows built at such resolutions.
C13_Witness ==
    /\ Built
    /\ ResolutionsInThousandths
    /\ Len(_lookup.rows) > 1
    /\ \E i, j \in DOMAIN _lookup.rows :
          /\ _lookup.rows[i][1] = _lookup.rows[j][1]
          /\ _lookup.rows[i][2] = _lookup.rows[j][2]
          /\ _lookup.rows[i][3] # _lookup.rows[j][3]

\* What getCurrentLookup answers, in the current state, at each grid point of
\* the build just made is the rounded current computed for that point.
RoundTripAtGridPoints ==
    LET lines == BuildLines(physics, cellCall.voltageRes, cellCall.irradianceRes,
                            cellCall.temperatureRes)
        nG == ArangeLen(IrradianceStop, cellCall.irradianceRes)
        nT == ArangeLen(TemperatureStop, cellCall.temperatureRes)
    IN \A i \in DOMAIN lines :
          LET pt == GridPoint(i, nG, nT, cellCall.voltageRes, cellCall.irradianceRes,
                              cellCall.temperatureRes)
          IN PVCellNonideal_getCurrentLookup(_lookup, lookupImpl, pt[1], pt[2], pt[3])
                 = [ err |-> "none", val |-> lines[i].line[4] ]

ScannedVoltages ==
    LET res == IF cellCall.resolution <= 0 THEN MIN_RESOLUTION ELSE cellCall.resolution
    IN {v \in Multiples(res, MAX_VOLTAGE) : v < MAX_VOLTAGE}

\* The query of the call recorded at voltage v finds no row.
MissAt(v) == Lookup_hits(_lookup, <<v, cellCall.irradiance, cellCall.temperature>>) = {}

StoredCurrent(v) ==
    Lookup_lookup(_lookup, lookupImpl, <<v, cellCall.irradiance, cellCall.temperature>>).val[1]

C17_CurveIsTheCoordinatesUnzipped ==
    curveCall.op = "generateSourceCurve" =>
        LET coords == curveCall.IVCoordinates
            xVals == curveRet[1]
            yVals == curveRet[2]
        IN /\ Len(curveRet) = 2
           /\ Len(xVals) = Len(coords)
           /\ Len(yVals) = Len(coords)
           /\ \A i \in 1..Len(coords) : <<xVals[i], yVals[i]>> = coords[i]

\* C17 witness: a curve of several coordinates, not in voltage order, was
\* returned.
C17_Witness ==
    /\ curveCall.op = "generateSourceCurve"
    /\ Len(curveCall.IVCoordinates) = MaxCoords
    /\ curveCall.IVCoordinates[1][1] > curveCall.IVCoordinates[2][1]
    /\ Len(curveRet[1]) = MaxCoords

\* C18: Graph.setPoint(seriesID, idx, x, y), for a series ID that exists in
\* the graph and an index within its data, replaces the data point at index
\* idx of that series with (x, y) and leaves every other point and every
\* other series unchanged.
C18_SetPointReplacesThePoint ==
    [][ ( /\ graphCall'.op = "setPoint"
          /\ graphCall'.seriesID \in DOMAIN _series
          /\ graphCall'.idx < Len(_series[graphCall'.seriesID].x) )
        => _series' = [_series EXCEPT
                         ![graphCall'.seriesID].x[graphCall'.idx + 1] = graphCall'.datapointX,
                         ![graphCall'.seriesID].y[graphCall'.idx + 1] = graphCall'.datapointY]
      ]_vars

(***************************************************************************)
(* Properties of MPPT.setupModel's ordering and of the unset model.        *)
(***************************************************************************)
EventsOf(kind) == {i \in DOMAIN mpptEvents : mpptEvents[i].ev = kind}

\* C19: when a model is already installed, setupModel calls reset() on the
\* old model before the new variant is constructed and installed; on the
\* very first setupModel no reset is performed; the new model is never the
\* target of that reset.
C19_ResetBeforeReplace ==
    mpptCall.op = "setupModel" =>
        /\ mpptCall.hadModel =>
              /\ EventsOf("reset") # {}
              /\ \A i \in EventsOf("reset") :
                    /\ mpptEvents[i].obj = mpptCall.oldId
                    /\ \A j \in EventsOf("construct") \cup EventsOf("install") : i < j
        /\ ~mpptCall.hadModel => EventsOf("reset") = {}
        /\ \A i \in EventsOf("reset") : mpptEvents[i].obj # modelId
        /\ \E j \in EventsOf("install") : mpptEvents[j].obj = modelId

\* C19 witness: a setupModel call replaced an installed model.
C19_Witness ==
    /\ mpptCall.op = "setupModel"
    /\ mpptCall.hadModel
    /\ mpptCall.prev = "getReferenceVoltage"
    /\ Len(mpptEvents) = 3
    /\ mpptEvents[1] = [ev |-> "reset", obj |-> mpptCall.oldId]
    /\ modelId # mpptCall.oldId

\* C20: the engine's model is unset exactly until the first setupModel call
\* and never unset afterwards (reset keeps the installed variant); while it
\* is unset, reset is a no-op and getReferenceVoltage, getMPPTType and
\* getStrideType fail with an error instead of returning a value.
C20_UnsetUntilFirstSetup ==
    /\ _model = None
    /\ [][ /\ (_model' = None) <=> (_model = None /\ mpptCall'.op # "setupModel")
           /\ (_model # None /\ mpptCall'.op = "reset") => _model'.cls = _model.cls
           /\ (_model = None /\ mpptCall'.op = "reset") =>
                (mpptRet'.err = "none" /\ mpptEvents' = << >>)
           /\ ( /\ _model = None
                /\ mpptCall'.op \in {"getReferenceVoltage", "getMPPTType", "getStrideType"} ) =>
                mpptRet'.err = "AttributeError"
         ]_vars

\* C20 witness: with no model set up, a reset went through and
\* getStrideType then failed.
C20_Witness ==
    /\ _model = None
    /\ modelId = 0
    /\ mpptCall.op = "getStrideType"
    /\ mpptCall.prev = "reset"
    /\ mpptRet.err = "AttributeError"

====
